---- MODULE Spec2Model ----
(***************************************************************************)
(* Model of the SEARCH/REPLACE diff pipeline of the DeepSite server        *)
(* (parseDiffBlocks, applySingleDiffFuzzy, applyDiffs, /api/apply-diffs)   *)
(* and of the diff-mode path of the client's callAi.                       *)
(*                                                                         *)
(* Text is a sequence of one-character strings; indices of the helper      *)
(* operators are 0-based like the JavaScript string methods they model.    *)
(***************************************************************************)
EXTENDS Integers, Sequences, FiniteSets, TLC

VARIABLES
    \* client, callAi (ask-ai.tsx)
    html,                     \* the editor document (prop html, written by setHtml)
    isAiWorking,              \* prop isAiWorking
    originalHtml,             \* callAi: the snapshot of html taken at its start
    accumulatedDiffResponse,  \* callAi: the chunks received so far, concatenated
    chunksRead,               \* number of chunks the reader has delivered
    toasts,                   \* the notifications shown by toast.error / toast.success
    prompt,                   \* state prompt
    previousPrompt,           \* state previousPrompt
    hasAsked,                 \* state hasAsked
    open,                     \* state open (the login dialog)
    plays,                    \* number of audio.play() calls
    fullContentResponse,      \* callAi: the chunks received so far in full-document mode
    lastRenderTime,           \* callAi: the time of the last preview
    now,                      \* the clock read by Date.now()
    received,                 \* history: the chunks the reader delivered, in arrival order
    sent,                     \* history: the requests sent to /api/apply-diffs
    \* server, parseDiffBlocks
    content,      \* parseDiffBlocks: its argument (aiResponseContent of applyDiffs)
    lines,        \* parseDiffBlocks: content.split("\n")
    i,            \* parseDiffBlocks: the outer loop's line index (0-based)
    blocks,       \* parseDiffBlocks: the blocks pushed so far (diffBlocks of applyDiffs)
    \* server, applyDiffs and the /api/apply-diffs handler
    reqOriginalHtml,  \* applyDiffs: its argument originalHtml (req.body.originalHtml)
    currentHtml,      \* applyDiffs: let currentHtml
    diffIndex,        \* applyDiffs: the index i of its for loop (0-based)
    applyResult,      \* applyDiffs: what it returned or threw
    res,              \* the HTTP response of /api/apply-diffs
    calls,            \* history: the calls of applySingleDiffFuzzy made by applyDiffs
    logged,           \* what applyDiffs wrote with console.error about a failed block
    \* server, the /api/ask-ai handler
    ipAddresses,      \* const ipAddresses = new Map(): requests counted per address
    requests,         \* history: the requests /api/ask-ai has handled, in arrival order
    pc                \* position of the running code

turnVars == <<prompt, previousPrompt, hasAsked, open, plays>>
fullVars == <<fullContentResponse, lastRenderTime, now>>
histVars == <<received, sent>>

clientVars ==
    <<html, isAiWorking, originalHtml, accumulatedDiffResponse, chunksRead, toasts, turnVars,
      fullVars, histVars>>
parserVars == <<content, lines, i, blocks>>
applyVars == <<reqOriginalHtml, currentHtml, diffIndex, applyResult, res, calls, logged>>

rateVars == <<ipAddresses, requests>>

vars == <<clientVars, parserVars, applyVars, rateVars, pc>>

(***************************************************************************)
(* Bounds of the model.                                                    *)
(***************************************************************************)
MaxPieces == 4
MaxChunks == 3
MaxText == 2
MaxRequests == 5

\* the interval below which callAi skips a preview (ask-ai.tsx line 149)
THROTTLE_MS == 300

(***************************************************************************)
(* The marker literals.                                                    *)
(***************************************************************************)
SEARCH_START == <<"<", "<", "<", "<", "<", "<", "<", " ", "S", "E", "A", "R", "C", "H">>
DIVIDER == <<"=", "=", "=", "=", "=", "=", "=">>
REPLACE_END == <<">", ">", ">", ">", ">", ">", ">", " ", "R", "E", "P", "L", "A", "C", "E">>

NL == "\n"

(***************************************************************************)
(* JavaScript string methods.                                              *)
(***************************************************************************)
IsWhitespace(c) == c \in {" ", "\n", "\t", "\r"}

\* s.substring(from, to), 0 <= from <= to <= s.length
Substring(s, from, to) == SubSeq(s, from + 1, to)

RECURSIVE TrimStart(_)
TrimStart(s) ==
    IF s # <<>> /\ IsWhitespace(Head(s)) THEN TrimStart(Tail(s)) ELSE s

RECURSIVE TrimEnd(_)
TrimEnd(s) ==
    IF s # <<>> /\ IsWhitespace(s[Len(s)]) THEN TrimEnd(SubSeq(s, 1, Len(s) - 1)) ELSE s

\* s.trim()
Trim(s) == TrimEnd(TrimStart(s))

\* s.lastIndexOf(t)
IndexOf_Last(s, t) ==
    LET hits == {k \in 0..(Len(s) - Len(t)) : Substring(s, k, k + Len(t)) = t}
    IN  IF hits = {} THEN -1 ELSE CHOOSE k \in hits : \A m \in hits : k >= m

\* s.indexOf(t): the least position at which t occurs in s, or -1
IndexOf(s, t) ==
    LET hits == {k \in 0..(Len(s) - Len(t)) : Substring(s, k, k + Len(t)) = t}
    IN  IF hits = {} THEN -1 ELSE CHOOSE k \in hits : \A m \in hits : k <= m

\* s.includes(t)
Includes(s, t) == IndexOf(s, t) # -1

\* s.startsWith(t), s.endsWith(t)
StartsWith(s, t) == Len(t) <= Len(s) /\ SubSeq(s, 1, Len(t)) = t
EndsWith(s, t) == Len(t) <= Len(s) /\ SubSeq(s, Len(s) - Len(t) + 1, Len(s)) = t

\* s.toLowerCase()
LowerCaseOf ==
    [c \in {"A", "B", "C", "D", "E", "F", "G", "H", "I", "J", "K", "L", "M",
            "N", "O", "P", "Q", "R", "S", "T", "U", "V", "W", "X", "Y", "Z"} |->
        CASE c = "A" -> "a" [] c = "B" -> "b" [] c = "C" -> "c" [] c = "D" -> "d"
          [] c = "E" -> "e" [] c = "F" -> "f" [] c = "G" -> "g" [] c = "H" -> "h"
          [] c = "I" -> "i" [] c = "J" -> "j" [] c = "K" -> "k" [] c = "L" -> "l"
          [] c = "M" -> "m" [] c = "N" -> "n" [] c = "O" -> "o" [] c = "P" -> "p"
          [] c = "Q" -> "q" [] c = "R" -> "r" [] c = "S" -> "s" [] c = "T" -> "t"
          [] c = "U" -> "u" [] c = "V" -> "v" [] c = "W" -> "w" [] c = "X" -> "x"
          [] c = "Y" -> "y" [] c = "Z" -> "z"]

ToLowerCase(s) ==
    [k \in 1..Len(s) |-> IF s[k] \in DOMAIN LowerCaseOf THEN LowerCaseOf[s[k]] ELSE s[k]]

\* s.split("\n"): never empty, "" splits into [""]
Split(s) ==
    LET nls == {k \in 1..Len(s) : s[k] = NL}
        n == Cardinality(nls)
        nth(j) == CHOOSE k \in nls : Cardinality({m \in nls : m < k}) = j - 1
    IN  [j \in 1..(n + 1) |->
            SubSeq(s, IF j = 1 THEN 1 ELSE nth(j - 1) + 1,
                      IF j = n + 1 THEN Len(s) ELSE nth(j) - 1)]

\* ls.join("\n")
RECURSIVE Join(_)
Join(ls) ==
    IF ls = <<>> THEN <<>>
    ELSE IF Len(ls) = 1 THEN ls[1]
    ELSE ls[1] \o <<NL>> \o Join(Tail(ls))

(***************************************************************************)
(* parseDiffBlocks.  lines[i] of the code is Line(ls, i) here.             *)
(***************************************************************************)
Line(ls, k) == ls[k + 1]

\* An accumulating loop that stops only at a line that is the marker as written,
\* without trimming it.
RECURSIVE ScanToMarker_Untrimmed(_, _, _)
ScanToMarker_Untrimmed(ls, k, marker) ==
    IF k < Len(ls) /\ Line(ls, k) # marker
    THEN ScanToMarker_Untrimmed(ls, k + 1, marker)
    ELSE k

\* while (i < lines.length && lines[i].trim() !== marker) i++  (lines 198, 212):
\* the index the loop stops at
RECURSIVE ScanToMarker(_, _, _)
ScanToMarker(ls, k, marker) ==
    IF k < Len(ls) /\ Trim(Line(ls, k)) # marker
    THEN ScanToMarker(ls, k + 1, marker)
    ELSE k

\* A recovery scan that restarts at the top of the text instead of going on from k.
SkipToNextStart_FromTop(ls, k) ==
    LET hits == {m \in 0..(Len(ls) - 1) : Includes(Line(ls, m), SEARCH_START)}
    IN  IF hits = {} THEN Len(ls) ELSE CHOOSE m \in hits : \A h \in hits : m <= h

\* while (i < lines.length && !lines[i].includes(SEARCH_START)) i++  (lines 208, 222)
RECURSIVE SkipToNextStart(_, _)
SkipToNextStart(ls, k) ==
    IF k < Len(ls) /\ ~Includes(Line(ls, k), SEARCH_START)
    THEN SkipToNextStart(ls, k + 1)
    ELSE k

\* the lines pushed by an accumulating loop that ran from index from to index to
Accumulated(ls, from, to) == SubSeq(ls, from + 1, to)

\* A block built from trimmed text.
MakeBlock_Trimmed(originalLines, updatedLines) ==
    [original |-> Trim(Join(originalLines)), updated |-> Trim(Join(updatedLines))]

\* the block pushed at lines 227-233
MakeBlock(originalLines, updatedLines) ==
    [original |-> Join(originalLines), updated |-> Join(updatedLines)]

\* One iteration of the outer loop (lines 192-236) from index k with the blocks bs:
\* the index and the blocks it leaves.
ParseIteration(ls, k, bs) ==
    IF Trim(Line(ls, k)) = SEARCH_START
    THEN LET s == k + 1
             d == ScanToMarker(ls, s, DIVIDER)
         IN  IF d >= Len(ls) \/ Trim(Line(ls, d)) # DIVIDER
             THEN [i |-> SkipToNextStart(ls, d), blocks |-> bs]
             ELSE LET e == ScanToMarker(ls, d + 1, REPLACE_END)
                  IN  IF e >= Len(ls) \/ Trim(Line(ls, e)) # REPLACE_END
                      THEN [i |-> SkipToNextStart(ls, e), blocks |-> bs]
                      ELSE [i |-> e + 1,
                            blocks |-> Append(bs, MakeBlock(Accumulated(ls, s, d),
                                                            Accumulated(ls, d + 1, e)))]
    ELSE [i |-> k + 1, blocks |-> bs]

\* parseDiffBlocks as a whole
RECURSIVE ParseLoop(_, _, _)
ParseLoop(ls, k, bs) ==
    IF k < Len(ls)
    THEN LET r == ParseIteration(ls, k, bs) IN ParseLoop(ls, r.i, r.blocks)
    ELSE bs

parseDiffBlocks(text) == ParseLoop(Split(text), 0, <<>>)

(***************************************************************************)
(* Values of the results.                                                  *)
(*   applySingleDiffFuzzy returns a string or null;                        *)
(*   applyDiffs returns a string or throws an Error, whose message is      *)
(*   kept as its kind and the block number it names;                       *)
(*   the handler answers 200 with a body or 400 with the message.          *)
(***************************************************************************)
Null == [isNull |-> TRUE, value |-> <<>>]
Str(v) == [isNull |-> FALSE, value |-> v]

NoResult == [kind |-> "none", value |-> <<>>, error |-> "", index |-> 0]
Returned(v) == [kind |-> "return", value |-> v, error |-> "", index |-> 0]
\* "AI response contained malformed or unparseable diff blocks. ..." (line 327)
ThrownMalformed == [kind |-> "throw", value |-> <<>>, error |-> "malformed", index |-> 0]
\* `Failed to apply AI-suggested change ${n}. ...` (line 392)
ThrownApply(n) == [kind |-> "throw", value |-> <<>>, error |-> "apply", index |-> n]

NoResponse == [status |-> 0, body |-> <<>>, error |-> "", index |-> 0]

(***************************************************************************)
(* Inputs of the parser's specification: texts made of up to MaxPieces     *)
(* pieces, a piece being one line or one whole block.                      *)
(***************************************************************************)
PaddedStart == <<" ">> \o SEARCH_START \o <<" ">>

Pieces ==
    { <<SEARCH_START>>,
      <<DIVIDER>>,
      <<REPLACE_END>>,
      <<<<" ", "a">>>>,
      <<<<>>>>,
      <<<<"x">> \o DIVIDER>>,
      <<SEARCH_START, <<"b">>, DIVIDER, <<"c">>, REPLACE_END>>,
      <<PaddedStart, <<" ", "a">>, DIVIDER \o <<"\t">>, REPLACE_END>> }

RECURSIVE SeqsOfLen(_, _)
SeqsOfLen(S, n) ==
    IF n = 0 THEN {<<>>}
    ELSE {Append(q, x) : q \in SeqsOfLen(S, n - 1), x \in S}

SeqsUpTo(S, n) == UNION {SeqsOfLen(S, k) : k \in 0..n}

RECURSIVE Flatten(_)
Flatten(ps) == IF ps = <<>> THEN <<>> ELSE Head(ps) \o Flatten(Tail(ps))

(***************************************************************************)
(* The parser running step by step: one action per outer-loop iteration.   *)
(***************************************************************************)
\* the client before any turn, its clock past the throttle interval of the previews
ClientAtRest ==
    /\ hasAsked = FALSE
    /\ open = FALSE
    /\ plays = 0
    /\ fullContentResponse = <<>>
    /\ lastRenderTime = 0
    /\ now = THROTTLE_MS + 1
    /\ received = <<>>
    /\ sent = <<>>

InitParse ==
    /\ \E ps \in SeqsUpTo(Pieces, MaxPieces) : content = Join(Flatten(ps))
    /\ ClientAtRest
    /\ prompt = <<>>
    /\ previousPrompt = <<>>
    /\ lines = Split(content)
    /\ i = 0
    /\ blocks = <<>>
    /\ pc = "parse"
    /\ html = <<>>
    /\ isAiWorking = FALSE
    /\ originalHtml = <<>>
    /\ accumulatedDiffResponse = <<>>
    /\ chunksRead = 0
    /\ toasts = <<>>
    /\ reqOriginalHtml = <<>>
    /\ currentHtml = <<>>
    /\ diffIndex = 0
    /\ applyResult = NoResult
    /\ res = NoResponse
    /\ calls = <<>>
    /\ logged = <<>>
    /\ ipAddresses = <<>>
    /\ requests = <<>>

\* while (i < lines.length) { ... }
ParseStep ==
    /\ pc = "parse"
    /\ i < Len(lines)
    /\ LET r == ParseIteration(lines, i, blocks)
       IN  /\ i' = r.i
           /\ blocks' = r.blocks
    /\ UNCHANGED <<content, lines, pc, clientVars, applyVars>>
    /\ UNCHANGED rateVars

\* return blocks (line 237)
ParseReturn ==
    /\ pc = "parse"
    /\ i >= Len(lines)
    /\ pc' = "parsed"
    /\ UNCHANGED <<content, lines, i, blocks, clientVars, applyVars>>
    /\ UNCHANGED rateVars

NextParse == ParseStep \/ ParseReturn

SpecParse == InitParse /\ [][NextParse]_vars

(***************************************************************************)
(* applySingleDiffFuzzy.                                                   *)
(***************************************************************************)
\* lines 252-258 without the look into currentHtml
NormalizedSearch_Unchecked(html0, originalBlock) ==
    IF ~EndsWith(originalBlock, <<NL>>)
    THEN originalBlock \o <<NL>>
    ELSE originalBlock

\* let searchBlock (lines 252-258)
NormalizedSearch(html0, originalBlock) ==
    IF ~EndsWith(originalBlock, <<NL>>) /\ Includes(html0, originalBlock \o <<NL>>)
    THEN originalBlock \o <<NL>>
    ELSE originalBlock

\* let replaceBlock (lines 260-271)
NormalizedReplace(searchBlock, updatedBlock) ==
    LET first == IF /\ EndsWith(searchBlock, <<NL>>)
                    /\ Len(updatedBlock) > 0
                    /\ ~EndsWith(updatedBlock, <<NL>>)
                 THEN updatedBlock \o <<NL>>
                 ELSE updatedBlock
    IN  IF EndsWith(searchBlock, <<NL>>) /\ Len(updatedBlock) = 0 THEN <<>> ELSE first

\* text with the span [from, to) replaced by t
Splice(text, from, to, t) ==
    Substring(text, 0, from) \o t \o Substring(text, to, Len(text))

Min(a, b) == IF a <= b THEN a ELSE b

\* dmp.patch_make(searchBlock, replaceBlock) (line 274).  diff-match-patch is a
\* library outside the repository: of the patch list only what the caller depends on
\* is kept.  Equal texts give a diff without an edit, hence no patch at all; any other
\* pair gives patches that turn searchBlock into replaceBlock.
PatchMake(searchBlock, replaceBlock) ==
    IF searchBlock = replaceBlock
    THEN <<>>
    ELSE <<[search |-> searchBlock, replace |-> replaceBlock]>>

\* dmp.patch_apply(patchText, currentHtml) (line 281): the pairs [patchedHtml, results]
\* the library may answer.  No patch: the text itself and no results.  Otherwise the
\* library chooses where, within its thresholds, each hunk goes and says per hunk
\* whether it placed it; the location it finds is not decided by the repository's
\* code, so every location is allowed here, as is not finding one.
PatchApplyOutcomes(patches, text) ==
    IF patches = <<>>
    THEN {[patchedHtml |-> text, results |-> <<>>]}
    ELSE LET pt == patches[1]
             placedAt(loc) ==
                 Splice(text, loc, Min(loc + Len(pt.search), Len(text)), pt.replace)
         IN  {[patchedHtml |-> placedAt(loc), results |-> <<TRUE>>] : loc \in 0..Len(text)}
                 \cup {[patchedHtml |-> text, results |-> <<FALSE>>],
                       [patchedHtml |-> placedAt(0), results |-> <<TRUE, FALSE>>]}

\* lines 283-306 with results.some in the place of results.every
ResultOfPatch_AcceptsPartial(html0, searchBlock, replaceBlock, applied) ==
    IF \E k \in 1..Len(applied.results) : applied.results[k] = TRUE
    THEN Str(applied.patchedHtml)
    ELSE IF Includes(html0, searchBlock)
         THEN LET index == IndexOf(html0, searchBlock)
              IN  Str(Substring(html0, 0, index) \o replaceBlock
                          \o Substring(html0, index + Len(searchBlock), Len(html0)))
         ELSE Null

\* lines 283-306 without the fallback of lines 292-303
ResultOfPatch_NoFallback(html0, searchBlock, replaceBlock, applied) ==
    IF \A k \in 1..Len(applied.results) : applied.results[k] = TRUE
    THEN Str(applied.patchedHtml)
    ELSE Null

\* lines 283-306, given the answer of patch_apply
ResultOfPatch(html0, searchBlock, replaceBlock, applied) ==
    IF \A k \in 1..Len(applied.results) : applied.results[k] = TRUE
    THEN Str(applied.patchedHtml)
    ELSE IF Includes(html0, searchBlock)
         THEN LET index == IndexOf(html0, searchBlock)
              IN  IF index # -1
                  THEN Str(Substring(html0, 0, index) \o replaceBlock
                               \o Substring(html0, index + Len(searchBlock), Len(html0)))
                  ELSE Null
         ELSE Null

\* the exact match tried before the library is asked
TiersTried_ExactFirst(html0, searchBlock, applied) ==
    IF Includes(html0, searchBlock) THEN <<"exact">> ELSE <<"exact", "approximate">>

\* the tiers applySingleDiffFuzzy goes through, in the order it tries them: the
\* library's patch_apply (line 281), and on a hunk it did not place the literal
\* currentHtml.includes(searchBlock) (line 292)
TiersTried(html0, searchBlock, applied) ==
    IF \A k \in 1..Len(applied.results) : applied.results[k] = TRUE
    THEN <<"approximate">>
    ELSE <<"approximate", "exact">>

\* the answers patch_apply may give inside applySingleDiffFuzzy(html0, ...)
DmpOutcomes(html0, originalBlock, updatedBlock) ==
    LET searchBlock == NormalizedSearch(html0, originalBlock)
        replaceBlock == NormalizedReplace(searchBlock, updatedBlock)
    IN  PatchApplyOutcomes(PatchMake(searchBlock, replaceBlock), html0)

\* applySingleDiffFuzzy(currentHtml, originalBlock, updatedBlock), the library having
\* answered applied
applySingleDiffFuzzy(html0, originalBlock, updatedBlock, applied) ==
    LET searchBlock == NormalizedSearch(html0, originalBlock)
        replaceBlock == NormalizedReplace(searchBlock, updatedBlock)
    IN  ResultOfPatch(html0, searchBlock, replaceBlock, applied)

Max(a, b) == IF a >= b THEN a ELSE b

\* the reach of the logged context before contextIndex (line 386) and after the end of
\* the expected span (line 387)
CONTEXT_BEFORE == 150
CONTEXT_AFTER == 300

\* lines 365-382 with the first line looked for even when empty and the middle line
\* whatever the number of lines
ContextIndex_AnyLine(html0, original) ==
    LET ls == Split(original)
        byFirstLine == IndexOf(html0, ls[1])
        byMiddleLine ==
            IF byFirstLine = -1
            THEN IndexOf(html0, ls[(Len(ls) \div 2) + 1])
            ELSE byFirstLine
    IN  IF byMiddleLine = -1 THEN 0 ELSE byMiddleLine

\* let contextIndex (lines 365-382)
ContextIndex(html0, original) ==
    LET ls == Split(original)
        firstLine == ls[1]
        byFirstLine == IF firstLine # <<>> THEN IndexOf(html0, firstLine) ELSE -1
        byMiddleLine ==
            IF byFirstLine = -1 /\ Len(ls) > 2
            THEN IndexOf(html0, ls[(Len(ls) \div 2) + 1])
            ELSE byFirstLine
    IN  IF byMiddleLine = -1 THEN 0 ELSE byMiddleLine

\* the argument of the last console.error but one (lines 384-389)
ContextSlice(html0, original) ==
    LET contextIndex == ContextIndex(html0, original)
    IN  Substring(html0, Max(0, contextIndex - CONTEXT_BEFORE),
                  Min(Len(html0), contextIndex + Len(original) + CONTEXT_AFTER))

\* the console.error calls about block k (0-based) that did not apply (lines 358-390)
FailureLog(html0, original, updated, k) ==
    [index |-> k + 1, search |-> original, replace |-> updated,
     context |-> ContextSlice(html0, original)]

(***************************************************************************)
(* applyDiffs.                                                             *)
(***************************************************************************)
DOCTYPE_PREFIX == <<"<", "!", "d", "o", "c", "t", "y", "p", "e", " ", "h", "t", "m", "l">>
HTML_PREFIX == <<"<", "h", "t", "m", "l">>

HasMarker(text) ==
    \/ Includes(text, SEARCH_START)
    \/ Includes(text, DIVIDER)
    \/ Includes(text, REPLACE_END)

LooksLikeFullHtml(text) ==
    LET trimmedResponse == ToLowerCase(Trim(text))
    IN  \/ StartsWith(trimmedResponse, DOCTYPE_PREFIX)
        \/ StartsWith(trimmedResponse, HTML_PREFIX)

\* The full-document heuristic tried before the marker check.
ClassifyEmptyResponse_FullDocFirst(original, aiResponseContent) ==
    IF LooksLikeFullHtml(aiResponseContent) THEN Returned(aiResponseContent)
    ELSE IF HasMarker(aiResponseContent) THEN ThrownMalformed
    ELSE Returned(original)

\* The fallback returning the trimmed, lowercased text it tested.
ClassifyEmptyResponse_Trimmed(original, aiResponseContent) ==
    IF HasMarker(aiResponseContent) THEN ThrownMalformed
    ELSE IF LooksLikeFullHtml(aiResponseContent)
         THEN Returned(ToLowerCase(Trim(aiResponseContent)))
         ELSE Returned(original)

\* Any marker-free response taken as the new document.
ClassifyEmptyResponse_AlwaysResponse(original, aiResponseContent) ==
    IF HasMarker(aiResponseContent) THEN ThrownMalformed
    ELSE Returned(aiResponseContent)

\* the branch diffBlocks.length === 0 (lines 319-347)
ClassifyEmptyResponse(original, aiResponseContent) ==
    IF HasMarker(aiResponseContent) THEN ThrownMalformed
    ELSE IF LooksLikeFullHtml(aiResponseContent) THEN Returned(aiResponseContent)
    ELSE Returned(original)

\* The failing block named by its 0-based index.
BlockFailure_ZeroBased(html0, k) == ThrownApply(k)

\* The loop left on a failure, what was patched so far returned.
BlockFailure_ReturnsPartial(html0, k) == Returned(html0)

\* result === null in iteration k of the loop (lines 356-397)
BlockFailure(html0, k) == ThrownApply(k + 1)

\* The result dropped instead of threaded.
NextHtml_Stale(html0, result) == html0

\* currentHtml = result (line 398)
NextHtml(html0, result) == result

\* the handler's answer (lines 421-434)
Response(outcome) ==
    IF outcome.kind = "return"
    THEN [status |-> 200, body |-> outcome.value, error |-> "", index |-> 0]
    ELSE [status |-> 400, body |-> <<>>, error |-> outcome.error, index |-> outcome.index]

(***************************************************************************)
(* Inputs of the system's specification: the editor's document and the     *)
(* chunks of the model's response.                                         *)
(***************************************************************************)
DocChoices ==
    { <<"a", NL, "b">>,
      <<"c", "a">> }

BlockText(searchLines, replaceLines) ==
    Join(<<SEARCH_START>> \o searchLines \o <<DIVIDER>> \o replaceLines \o <<REPLACE_END>>)
        \o <<NL>>

ChunkChoices ==
    { BlockText(<<<<"a">>>>, <<<<"b">>>>),
      BlockText(<<>>, <<<<"c">>>>),
      BlockText(<<<<"z">>>>, <<<<"z">>>>),
      BlockText(<<<<"b">>>>, <<<<"c">>>>),
      <<"h", "i", NL>>,
      <<" ", "<", "H", "T", "M", "L", ">", NL>>,
      <<"<", "!", "D", "O", "C", "T", "Y", "P", "E", " ", "h", "t", "m", "l", ">">>,
      <<"x">> \o DIVIDER \o <<NL>>,
      SEARCH_START \o <<NL>> }

(***************************************************************************)
(* The system: one diff-mode turn of callAi (the stream of /api/ask-ai     *)
(* answered with X-Response-Type: diff), the request it sends to           *)
(* /api/apply-diffs, the handler running applyDiffs, and the client        *)
(* handling the answer.                                                    *)
(***************************************************************************)
\* what the user typed: a prompt, or blanks only
PromptChoices == {<<"p">>, <<" ">>}

Init ==
    /\ html \in DocChoices
    /\ ClientAtRest
    /\ prompt \in PromptChoices
    /\ previousPrompt = <<"o">>
    /\ isAiWorking = FALSE
    /\ originalHtml = <<>>
    /\ accumulatedDiffResponse = <<>>
    /\ chunksRead = 0
    /\ toasts = <<>>
    /\ content = <<>>
    /\ lines = <<>>
    /\ i = 0
    /\ blocks = <<>>
    /\ reqOriginalHtml = <<>>
    /\ currentHtml = <<>>
    /\ diffIndex = 0
    /\ applyResult = NoResult
    /\ res = NoResponse
    /\ calls = <<>>
    /\ logged = <<>>
    /\ ipAddresses = <<>>
    /\ requests = <<>>
    /\ pc = "idle"

\* callAi up to the reader loop (ask-ai.tsx lines 35-73)
CallAi ==
    /\ pc = "idle"
    /\ ~(isAiWorking \/ Trim(prompt) = <<>>)
    /\ originalHtml' = html
    /\ isAiWorking' = TRUE
    /\ fullContentResponse' = <<>>
    /\ accumulatedDiffResponse' = <<>>
    /\ lastRenderTime' = 0
    /\ pc' = "streaming"
    /\ UNCHANGED <<html, chunksRead, toasts, turnVars, now, histVars, parserVars, applyVars>>
    /\ UNCHANGED rateVars

\* accumulatedDiffResponse = chunk, the text received before it dropped
Accumulate_LastChunk(acc, chunk) == chunk

\* accumulatedDiffResponse += chunk (ask-ai.tsx line 138)
Accumulate(acc, chunk) == acc \o chunk

\* reader.read() delivers a chunk (ask-ai.tsx lines 77, 134-138)
ReadChunk ==
    /\ pc = "streaming"
    /\ chunksRead < MaxChunks
    /\ \E chunk \in ChunkChoices :
           /\ accumulatedDiffResponse' = Accumulate(accumulatedDiffResponse, chunk)
           /\ received' = Append(received, chunk)
    /\ chunksRead' = chunksRead + 1
    /\ UNCHANGED <<html, isAiWorking, originalHtml, toasts, turnVars, fullVars, sent,
                   parserVars, applyVars, pc>>
    /\ UNCHANGED rateVars

\* reader.read() says done: the request to /api/apply-diffs (ask-ai.tsx lines 78-93)
\* and the handler's call of applyDiffs up to the parser's loop (lines 406-423, 317,
\* 189-191).  The client sends two strings, so the handler's type check passes.
StreamDone ==
    /\ pc = "streaming"
    /\ reqOriginalHtml' = originalHtml
    /\ content' = accumulatedDiffResponse
    /\ lines' = Split(accumulatedDiffResponse)
    /\ i' = 0
    /\ blocks' = <<>>
    /\ sent' = Append(sent, [originalHtml |-> originalHtml,
                             aiResponseContent |-> accumulatedDiffResponse,
                             afterChunks |-> chunksRead])
    /\ pc' = "parse"
    /\ UNCHANGED <<html, isAiWorking, originalHtml, accumulatedDiffResponse, chunksRead,
                   toasts, turnVars, fullVars, received>>
    /\ UNCHANGED <<currentHtml, diffIndex, applyResult, res, calls, logged>>
    /\ UNCHANGED rateVars

\* diffBlocks.length === 0 (lines 319-347)
EmptyResponse ==
    /\ pc = "parsed"
    /\ Len(blocks) = 0
    /\ applyResult' = ClassifyEmptyResponse(reqOriginalHtml, content)
    /\ pc' = "respond"
    /\ UNCHANGED <<clientVars, parserVars, reqOriginalHtml, currentHtml, diffIndex, res, calls,
                   logged>>
    /\ UNCHANGED rateVars

\* let currentHtml = originalHtml; i = 0 (lines 349-351)
ApplyStart ==
    /\ pc = "parsed"
    /\ Len(blocks) # 0
    /\ currentHtml' = reqOriginalHtml
    /\ diffIndex' = 0
    /\ pc' = "apply"
    /\ UNCHANGED <<clientVars, parserVars, reqOriginalHtml, applyResult, res, calls, logged>>
    /\ UNCHANGED rateVars

\* one iteration of the for loop (lines 351-399)
ApplyBlock ==
    /\ pc = "apply"
    /\ diffIndex < Len(blocks)
    /\ LET original == blocks[diffIndex + 1].original
           updated == blocks[diffIndex + 1].updated
       IN  \E applied \in DmpOutcomes(currentHtml, original, updated) :
               LET searchBlock == NormalizedSearch(currentHtml, original)
                   result == applySingleDiffFuzzy(currentHtml, original, updated, applied)
               IN  /\ calls' = Append(calls, [i |-> diffIndex,
                                              currentHtml |-> currentHtml,
                                              original |-> original,
                                              updated |-> updated,
                                              searchBlock |-> searchBlock,
                                              replaceBlock |->
                                                  NormalizedReplace(searchBlock, updated),
                                              applied |-> applied,
                                              tiers |->
                                                  TiersTried(currentHtml, searchBlock,
                                                             applied),
                                              result |-> result])
                   /\ IF result.isNull
                      THEN /\ logged' = Append(logged, FailureLog(currentHtml, original,
                                                                  updated, diffIndex))
                           /\ applyResult' = BlockFailure(currentHtml, diffIndex)
                           /\ pc' = "respond"
                           /\ UNCHANGED <<currentHtml, diffIndex>>
                      ELSE /\ currentHtml' = NextHtml(currentHtml, result.value)
                           /\ diffIndex' = diffIndex + 1
                           /\ UNCHANGED <<applyResult, logged, pc>>
    /\ UNCHANGED <<clientVars, parserVars, reqOriginalHtml, res>>
    /\ UNCHANGED rateVars

\* return currentHtml (lines 401-402)
ApplyReturn ==
    /\ pc = "apply"
    /\ diffIndex >= Len(blocks)
    /\ applyResult' = Returned(currentHtml)
    /\ pc' = "respond"
    /\ UNCHANGED <<clientVars, parserVars, reqOriginalHtml, currentHtml, diffIndex, res, calls,
                   logged>>
    /\ UNCHANGED rateVars

\* res.status(200).send(modifiedHtml) or the catch's res.status(400).json (lines 423-434)
Respond ==
    /\ pc = "respond"
    /\ res' = Response(applyResult)
    /\ pc' = "client"
    /\ UNCHANGED <<clientVars, parserVars, reqOriginalHtml, currentHtml, diffIndex,
                   applyResult, calls, logged>>
    /\ UNCHANGED rateVars

Toast(kind, text, response) ==
    [kind |-> kind, text |-> text, error |-> response.error, index |-> response.index]

\* toast.success("AI changes applied") (ask-ai.tsx line 103)
AppliedToasts == <<Toast("success", "AI changes applied", NoResponse)>>

\* the catch of ask-ai.tsx lines 105-110 without its toast.error
FailureToasts_Silent(response) == <<>>

\* toast.error(`Failed to apply AI changes: ${applyError.message}`), the message being
\* the one of the handler's answer (ask-ai.tsx lines 95-98, 105-107)
FailureToasts(response) == <<Toast("error", "Failed to apply AI changes", response)>>

\* toast.success("AI processing complete") (ask-ai.tsx line 125)
CompleteToasts == <<Toast("success", "AI processing complete", NoResponse)>>

\* applyRequest.ok: setHtml(patchedHtml), then the end of the turn
\* (ask-ai.tsx lines 100-103, 125-131)
ClientApplied ==
    /\ pc = "client"
    /\ res.status = 200
    /\ html' = res.body
    /\ toasts' = toasts \o AppliedToasts \o CompleteToasts
    /\ prompt' = <<>>
    /\ previousPrompt' = prompt
    /\ isAiWorking' = FALSE
    /\ hasAsked' = TRUE
    /\ plays' = plays + 1
    /\ pc' = "done"
    /\ UNCHANGED <<originalHtml, accumulatedDiffResponse, chunksRead, open, fullVars,
                   histVars, parserVars, applyVars>>
    /\ UNCHANGED rateVars

\* !applyRequest.ok: the Error thrown and caught, then the end of the turn
\* (ask-ai.tsx lines 95-98, 105-110, 125-131)
ClientApplyFailed ==
    /\ pc = "client"
    /\ res.status # 200
    /\ toasts' = toasts \o FailureToasts(res) \o CompleteToasts
    /\ prompt' = <<>>
    /\ previousPrompt' = prompt
    /\ isAiWorking' = FALSE
    /\ hasAsked' = TRUE
    /\ plays' = plays + 1
    /\ pc' = "done"
    /\ UNCHANGED <<html, originalHtml, accumulatedDiffResponse, chunksRead, open, fullVars,
                   histVars, parserVars, applyVars>>
    /\ UNCHANGED rateVars

Next ==
    \/ CallAi
    \/ ReadChunk
    \/ StreamDone
    \/ ParseStep
    \/ ParseReturn
    \/ EmptyResponse
    \/ ApplyStart
    \/ ApplyBlock
    \/ ApplyReturn
    \/ Respond
    \/ ClientApplied
    \/ ClientApplyFailed

Spec == Init /\ [][Next]_vars

(***************************************************************************)
(* The /api/ask-ai handler up to its rate limit, requests arriving while   *)
(* the streams of earlier ones are still open.  A handler runs without     *)
(* interruption from its start to its first await, the for await of the    *)
(* stream, which comes after the rate limit.                               *)
(***************************************************************************)
MAX_REQUESTS_PER_IP == 4

IpChoices == {"10.0.0.1", "10.0.0.2"}

\* ipAddresses.get(ip) || 0 (line 461)
CountOf(map, ip) == IF ip \in DOMAIN map THEN map[ip] ELSE 0

\* line 461 with the count stored as if this were the address's first request
CountedRequest_Restarted(map, ip) ==
    [a \in DOMAIN map \cup {ip} |-> IF a = ip THEN 1 ELSE map[a]]

\* line 461 with the count stored only while it stays within the limit
CountedRequest_Saturating(map, ip) ==
    [a \in DOMAIN map \cup {ip} |->
        IF a = ip
        THEN IF CountOf(map, ip) < MAX_REQUESTS_PER_IP THEN CountOf(map, ip) + 1
             ELSE CountOf(map, ip)
        ELSE map[a]]

\* ipAddresses.set(ip, (ipAddresses.get(ip) || 0) + 1) (line 461)
CountedRequest(map, ip) ==
    [a \in DOMAIN map \cup {ip} |-> IF a = ip THEN CountOf(map, ip) + 1 ELSE map[a]]

Request(ip, anonymous, seen, state) ==
    [ip |-> ip, anonymous |-> anonymous, seen |-> seen, state |-> state]

\* !prompt: 400 before the cookie and the address are read (lines 438-445), whoever
\* sent the request
AskAiMissingPrompt ==
    /\ Len(requests) < MaxRequests
    /\ \E ip \in IpChoices, hf_token \in BOOLEAN :
           requests' = Append(requests, Request(ip, ~hf_token, -1, "400"))
    /\ UNCHANGED <<clientVars, parserVars, applyVars, ipAddresses, pc>>

\* a request with the hf_token cookie: no rate limit, the stream starts
\* (lines 438-458, 460, 530-557)
AskAiWithToken ==
    /\ Len(requests) < MaxRequests
    /\ \E ip \in IpChoices :
           requests' = Append(requests, Request(ip, FALSE, -1, "streaming"))
    /\ UNCHANGED <<clientVars, parserVars, applyVars, ipAddresses, pc>>

\* a request without the cookie: counted, then rejected with 429 or let through to the
\* stream (lines 438-471, 530-557)
AskAiAnonymous ==
    /\ Len(requests) < MaxRequests
    /\ \E ip \in IpChoices :
           /\ ipAddresses' = CountedRequest(ipAddresses, ip)
           /\ requests' =
                  Append(requests,
                         Request(ip, TRUE, CountOf(ipAddresses, ip),
                                 IF CountOf(ipAddresses', ip) > MAX_REQUESTS_PER_IP
                                 THEN "429"
                                 ELSE "streaming"))
    /\ UNCHANGED <<clientVars, parserVars, applyVars, pc>>

\* the stream of an admitted request is over: res.end() after the for await, or the
\* catch's answer (lines 559-609)
StreamEnd ==
    /\ \E k \in 1..Len(requests) :
           /\ requests[k].state = "streaming"
           /\ requests' = [requests EXCEPT ![k].state = "ended"]
    /\ UNCHANGED <<clientVars, parserVars, applyVars, ipAddresses, pc>>

NextAskAi ==
    \/ AskAiMissingPrompt
    \/ AskAiWithToken
    \/ AskAiAnonymous
    \/ StreamEnd

(***************************************************************************)
(* A full-document turn of callAi: the stream of /api/ask-ai answered with *)
(* X-Response-Type: full (or without the header), previewed while it       *)
(* arrives.                                                                *)
(***************************************************************************)
DOCTYPE_TAG == <<"<", "!", "D", "O", "C", "T", "Y", "P", "E", " ", "h", "t", "m", "l", ">">>
CLOSE_HTML == <<"<", "/", "h", "t", "m", "l", ">">>

\* s.lastIndexOf(t): the greatest position at which t occurs in s, or -1
LastIndexOf(s, t) ==
    LET hits == {k \in 0..(Len(s) - Len(t)) : Substring(s, k, k + Len(t)) = t}
    IN  IF hits = {} THEN -1 ELSE CHOOSE k \in hits : \A h \in hits : k >= h

\* text.match(/<!DOCTYPE html>[\s\S]*/)?.[0] (ask-ai.tsx lines 143-144): from the
\* leftmost tag to the end of the text
MatchFromDoctype(text) ==
    IF Includes(text, DOCTYPE_TAG)
    THEN Str(Substring(text, IndexOf(text, DOCTYPE_TAG), Len(text)))
    ELSE Null

\* text.match(/<!DOCTYPE html>[\s\S]*<\/html>/)?.[0] (ask-ai.tsx line 114): from the
\* leftmost tag to the last </html> after it
MatchDocument(text) ==
    LET start == IndexOf(text, DOCTYPE_TAG)
        rest == Substring(text, start + Len(DOCTYPE_TAG), Len(text))
        close == LastIndexOf(rest, CLOSE_HTML)
    IN  IF start # -1 /\ close # -1
        THEN Str(Substring(text, start, start + Len(DOCTYPE_TAG) + close + Len(CLOSE_HTML)))
        ELSE Null

\* let partialDoc (ask-ai.tsx lines 151-154)
PartialDoc(newHtml) ==
    IF ~EndsWith(Trim(newHtml), CLOSE_HTML)
    THEN newHtml \o <<NL>> \o CLOSE_HTML
    ELSE newHtml

FullChunkChoices ==
    { DOCTYPE_TAG,
      <<"a">>,
      <<"x", NL>>,
      CLOSE_HTML }

\* the time that may pass while a read is awaited
Delays == {0, THROTTLE_MS, THROTTLE_MS + 1}

\* reader.read() delivers a chunk in full-document mode (ask-ai.tsx lines 77, 134,
\* 139-164); onScrollToBottom leaves the state of this component alone
ReadChunkFull ==
    /\ pc = "streaming"
    /\ chunksRead < MaxChunks
    /\ \E chunk \in FullChunkChoices, delay \in Delays :
           LET newHtml == MatchFromDoctype(fullContentResponse \o chunk)
           IN  /\ now' = now + delay
               /\ fullContentResponse' = fullContentResponse \o chunk
               /\ received' = Append(received, chunk)
               /\ IF ~newHtml.isNull /\ now' - lastRenderTime > THROTTLE_MS
                  THEN /\ html' = PartialDoc(newHtml.value)
                       /\ lastRenderTime' = now'
                  ELSE UNCHANGED <<html, lastRenderTime>>
    /\ chunksRead' = chunksRead + 1
    /\ UNCHANGED <<isAiWorking, originalHtml, accumulatedDiffResponse, toasts, turnVars, sent,
                   parserVars, applyVars, pc>>
    /\ UNCHANGED rateVars

\* reader.read() says done in full-document mode: the final update and the end of the
\* turn (ask-ai.tsx lines 78-79, 112-131)
StreamDoneFull ==
    /\ pc = "streaming"
    /\ LET finalDoc == MatchDocument(fullContentResponse)
       IN  IF ~finalDoc.isNull /\ finalDoc.value # <<>>
           THEN html' = finalDoc.value
           ELSE UNCHANGED html
    /\ toasts' = toasts \o CompleteToasts
    /\ prompt' = <<>>
    /\ previousPrompt' = prompt
    /\ isAiWorking' = FALSE
    /\ hasAsked' = TRUE
    /\ plays' = plays + 1
    /\ pc' = "done"
    /\ UNCHANGED <<originalHtml, accumulatedDiffResponse, chunksRead, open, fullVars,
                   histVars, parserVars, applyVars>>
    /\ UNCHANGED rateVars

NextFull ==
    \/ CallAi
    \/ ReadChunkFull
    \/ StreamDoneFull

SpecFull == Init /\ [][NextFull]_vars

\* the server just started, the client idle
InitAskAi ==
    /\ Init
    /\ html = <<"c", "a">>
    /\ prompt = <<"p">>

SpecAskAi == InitAskAi /\ [][NextAskAi]_vars

(***************************************************************************)
(* applySingleDiffFuzzy on its own: applyDiffs entered at its loop with    *)
(* one block and a document, both drawn from the short texts over a letter *)
(* and the newline.                                                        *)
(***************************************************************************)
ShortTexts(n) == SeqsUpTo({"a", NL}, n)

\* the state of the other components while applyDiffs runs on its own
Standalone ==
    /\ ClientAtRest
    /\ prompt = <<>>
    /\ previousPrompt = <<>>
    /\ html = <<>>
    /\ isAiWorking = FALSE
    /\ originalHtml = <<>>
    /\ accumulatedDiffResponse = <<>>
    /\ chunksRead = 0
    /\ toasts = <<>>
    /\ content = <<>>
    /\ lines = <<>>
    /\ i = 0
    /\ applyResult = NoResult
    /\ res = NoResponse
    /\ calls = <<>>
    /\ logged = <<>>
    /\ ipAddresses = <<>>
    /\ requests = <<>>
    /\ diffIndex = 0
    /\ pc = "apply"

InitApplySingle ==
    /\ Standalone
    /\ \E doc \in ShortTexts(MaxText + 2), original \in ShortTexts(MaxText),
          updated \in ShortTexts(MaxText) :
           /\ reqOriginalHtml = doc
           /\ currentHtml = doc
           /\ blocks = <<[original |-> original, updated |-> updated]>>

\* the loop of applyDiffs and its return
NextApplySingle ==
    \/ ApplyBlock
    \/ ApplyReturn

SpecApplySingle == InitApplySingle /\ [][NextApplySingle]_vars

(***************************************************************************)
(* applyDiffs at its loop with one block and a document longer than the    *)
(* reach of the logged context: runs of filler around one letter.          *)
(***************************************************************************)
Filler(c, n) == [k \in 1..n |-> c]

LongDocs ==
    { Filler("x", before) \o mid \o Filler("y", after) :
          before \in {0, CONTEXT_BEFORE - 1, CONTEXT_BEFORE + 1},
          mid \in {<<"a">>, <<"b">>},
          after \in {0, CONTEXT_AFTER + 10} }

\* search texts of one, two and three lines, none of which occurs in a document of
\* LongDocs as a whole
MissingSearches ==
    { <<"q">>,
      <<"a", NL, "q">>,
      <<"q", NL, "b">>,
      <<"q", NL, "b", NL, "q">>,
      <<NL, "b", NL, "q">> }

InitContext ==
    /\ Standalone
    /\ \E doc \in LongDocs, original \in MissingSearches :
           /\ reqOriginalHtml = doc
           /\ currentHtml = doc
           /\ blocks = <<[original |-> original, updated |-> <<"r">>]>>

\* the loop of applyDiffs, its return, and the handler's answer
NextContext ==
    \/ ApplyBlock
    \/ ApplyReturn
    \/ Respond

SpecContext == InitContext /\ [][NextContext]_vars

(***************************************************************************)
(* Claims about parseDiffBlocks, checked under SpecParse.                  *)
(***************************************************************************)
IsMarkerLine(l) == Trim(l) \in {SEARCH_START, DIVIDER, REPLACE_END}

\* The SCANNING -> IN_SEARCH -> IN_REPLACE -> SCANNING machine of the format, reading
\* one line at a time from line k (1-based) of ls.
RECURSIVE Machine(_, _, _, _, _, _)
Machine(ls, k, state, srch, repl, out) ==
    IF k > Len(ls) THEN out
    ELSE LET l == ls[k]
         IN  CASE state = "SCANNING" ->
                    IF Trim(l) = SEARCH_START
                    THEN Machine(ls, k + 1, "IN_SEARCH", <<>>, <<>>, out)
                    ELSE Machine(ls, k + 1, "SCANNING", <<>>, <<>>, out)
               [] state = "IN_SEARCH" ->
                    IF Trim(l) = DIVIDER
                    THEN Machine(ls, k + 1, "IN_REPLACE", srch, <<>>, out)
                    ELSE Machine(ls, k + 1, "IN_SEARCH", Append(srch, l), <<>>, out)
               [] state = "IN_REPLACE" ->
                    IF Trim(l) = REPLACE_END
                    THEN Machine(ls, k + 1, "SCANNING", <<>>, <<>>,
                                 Append(out, [original |-> Join(srch), updated |-> Join(repl)]))
                    ELSE Machine(ls, k + 1, "IN_REPLACE", srch, Append(repl, l), out)

\* C4: the blocks parseDiffBlocks returns are exactly those the SCANNING / IN_SEARCH /
\* IN_REPLACE machine emits on the text's lines: one block per completed
\* SEARCH_START / DIVIDER / REPLACE_END triple (markers compared after trimming), its
\* search and replace the untrimmed lines in between joined by newline, in order of
\* appearance, everything else ignored.
C4_ParserFollowsStateMachine ==
    pc = "parsed" => blocks = Machine(Split(content), 1, "SCANNING", <<>>, <<>>, <<>>)

C4_Witness ==
    /\ pc = "parsed"
    /\ Len(blocks) = 2
    /\ blocks[1] = [original |-> <<" ", "a">>, updated |-> <<>>]
    /\ blocks[2] = [original |-> <<"b">>, updated |-> <<"c">>]
    /\ ~IsMarkerLine(lines[1])

\* C5: parseDiffBlocks is total: every iteration of the outer loop moves the line
\* index strictly forward and never past the end of the text (the malformed-block
\* paths included), and the only other step is the return of the block list.
C5_ParserTotal ==
    [][pc = "parse" =>
          \/ i < Len(lines) /\ i < i' /\ i' <= Len(lines) /\ pc' = "parse"
          \/ i >= Len(lines) /\ pc' = "parsed" /\ blocks' = blocks]_vars

C5_Witness ==
    /\ pc = "parsed"
    /\ blocks = <<>>
    /\ \E k \in 1..Len(lines) : Trim(lines[k]) = SEARCH_START
    /\ \E k \in 1..Len(lines) : Trim(lines[k]) = REPLACE_END

\* The block of a well-formed span w: a SEARCH_START line, lines that are no markers,
\* a DIVIDER line, lines that are no markers, a REPLACE_END line.
IsWellFormedSpan(w, d) ==
    /\ 1 < d /\ d < Len(w)
    /\ Trim(w[1]) = SEARCH_START
    /\ Trim(w[d]) = DIVIDER
    /\ Trim(w[Len(w)]) = REPLACE_END
    /\ \A k \in 2..(Len(w) - 1) : k # d => ~IsMarkerLine(w[k])

BlockOfSpan(w, d) ==
    [original |-> Join(SubSeq(w, 2, d - 1)), updated |-> Join(SubSeq(w, d + 1, Len(w) - 1))]

\* C6: a text that is one broken block (a SEARCH_START line and lines that are no
\* markers, no DIVIDER of its own) followed by one well-formed block parses into
\* exactly that well-formed block.
C6_MalformedRecovery ==
    pc = "parsed" =>
        \A n \in 1..Len(lines) : \A d \in 1..Len(lines) :
            LET w == SubSeq(lines, n + 1, Len(lines))
            IN  (/\ Trim(lines[1]) = SEARCH_START
                 /\ \A k \in 2..n : ~IsMarkerLine(lines[k])
                 /\ IsWellFormedSpan(w, d))
                => blocks = <<BlockOfSpan(w, d)>>

\* The blocks of the well-formed spans of ls from line k on, in order.
RECURSIVE WellFormedBlocks(_, _)
WellFormedBlocks(ls, k) ==
    IF k > Len(ls) THEN <<>>
    ELSE LET spans == {sp \in (k..Len(ls)) \X (1..Len(ls)) :
                          IsWellFormedSpan(SubSeq(ls, k, sp[1]), sp[2])}
         IN  IF spans = {} THEN WellFormedBlocks(ls, k + 1)
             ELSE LET sp == CHOOSE x \in spans : TRUE
                  IN  <<BlockOfSpan(SubSeq(ls, k, sp[1]), sp[2])>>
                          \o WellFormedBlocks(ls, sp[1] + 1)

\* C7: a span opened by SEARCH_START that lacks its DIVIDER or its REPLACE_END yields
\* no block, and every well-formed block of the text is still emitted: the blocks
\* returned are exactly the well-formed blocks of the text, in order.
C7_MalformedSpanDiscarded ==
    pc = "parsed" => blocks = WellFormedBlocks(lines, 1)

(***************************************************************************)
(* Claims about applyDiffs, its handler and the client, checked under Spec.*)
(***************************************************************************)
\* applyDiffs has returned or thrown
ApplyDiffsOver == pc \in {"respond", "client", "done"}

\* m occurs in text as a substring
Occurs(m, text) == \E k \in 1..(Len(text) - Len(m) + 1) : SubSeq(text, k, k + Len(m) - 1) = m

AnyMarkerOccurs(text) == \E m \in {SEARCH_START, DIVIDER, REPLACE_END} : Occurs(m, text)

BeginsLikeDocument(text) ==
    \E prefix \in {DOCTYPE_PREFIX, HTML_PREFIX} : StartsWith(ToLowerCase(Trim(text)), prefix)

\* C1: applyDiffs applies the blocks strictly in parse order, each to the document
\* the previous one produced: the k-th call of applySingleDiffFuzzy is for block k, its
\* input is originalHtml for k = 1 and the result of call k - 1 otherwise, and a
\* document is returned only after a call for every block.
C1_BlocksAppliedInOrder ==
    /\ Len(calls) <= Len(blocks)
    /\ \A k \in 1..Len(calls) :
           /\ calls[k].i = k - 1
           /\ calls[k].original = blocks[k].original
           /\ calls[k].updated = blocks[k].updated
           /\ IF k = 1
              THEN calls[k].currentHtml = reqOriginalHtml
              ELSE /\ ~calls[k - 1].result.isNull
                   /\ calls[k].currentHtml = calls[k - 1].result.value
    /\ (applyResult.kind = "return" /\ Len(blocks) > 0) => Len(calls) = Len(blocks)

C1_Witness ==
    /\ pc = "done"
    /\ res.status = 200
    /\ Len(calls) = 3
    /\ calls[1].result.value # calls[1].currentHtml
    /\ calls[2].result.value # calls[2].currentHtml
    /\ calls[3].result.value # calls[3].currentHtml

\* C2: when applySingleDiffFuzzy fails for block k, applyDiffs stops there: the failed
\* call stays the last call ever made, and the one error raised names k, counted from 1.
C2_AbortOnFirstFailure ==
    /\ \A k \in 1..Len(calls) :
           calls[k].result.isNull =>
               /\ k = Len(calls)
               /\ ApplyDiffsOver
               /\ applyResult = ThrownApply(k)
               /\ res.status # 0 => (res.status = 400 /\ res.error = "apply" /\ res.index = k)
    /\ applyResult.error = "apply" =>
           /\ Len(calls) > 0
           /\ calls[Len(calls)].result.isNull

C2_Witness ==
    /\ pc = "done"
    /\ Len(blocks) = 3
    /\ Len(calls) = 2
    /\ calls[2].result.isNull
    /\ res.index = 2

\* C3: all or nothing: applyDiffs returns a document only when every block was applied,
\* and then the one the last block produced; the handler sends a 200 body only for a
\* returned document; the client's editor document only ever changes to such a body.
C3_AllOrNothing ==
    /\ (applyResult.kind = "return" /\ Len(blocks) > 0) =>
           /\ Len(calls) = Len(blocks)
           /\ \A k \in 1..Len(calls) : ~calls[k].result.isNull
           /\ applyResult.value = calls[Len(blocks)].result.value
    /\ res.status = 200 => (applyResult.kind = "return" /\ res.body = applyResult.value)
    /\ isAiWorking \/ pc = "done" =>
           \/ html = originalHtml
           \/ pc = "done" /\ res.status = 200 /\ html = res.body

C3_Witness ==
    /\ pc = "done"
    /\ Len(calls) = 2
    /\ calls[1].result.value # reqOriginalHtml
    /\ calls[2].result.isNull
    /\ res.status = 400
    /\ html = originalHtml

\* C8: zero blocks and a marker literal somewhere in the response: applyDiffs throws
\* the malformed-diff error, also when the response looks like a full document; the
\* handler answers 400 and the editor document stays as it was.
C8_MarkersWithoutBlocksFail ==
    (ApplyDiffsOver /\ Len(blocks) = 0 /\ AnyMarkerOccurs(content)) =>
        /\ applyResult = ThrownMalformed
        /\ res.status # 0 => res.status = 400
        /\ pc = "done" => html = originalHtml

C8_Witness ==
    /\ pc = "done"
    /\ Len(blocks) = 0
    /\ AnyMarkerOccurs(content)
    /\ BeginsLikeDocument(content)
    /\ res.error = "malformed"

\* C9: zero blocks, no marker literal, and the trimmed, lowercased response begins
\* with a document declaration or a root element opening: applyDiffs returns the
\* response text itself, untrimmed and in its own case, whatever the original was.
C9_FullDocumentFallback ==
    (ApplyDiffsOver /\ Len(blocks) = 0 /\ ~AnyMarkerOccurs(content)
        /\ BeginsLikeDocument(content)) =>
        /\ applyResult = Returned(accumulatedDiffResponse)
        /\ res.status # 0 => (res.status = 200 /\ res.body = accumulatedDiffResponse)
        /\ pc = "done" => html = accumulatedDiffResponse

C9_Witness ==
    /\ pc = "done"
    /\ Len(blocks) = 0
    /\ html = accumulatedDiffResponse
    /\ html # Trim(html)
    /\ html # ToLowerCase(html)
    /\ html # originalHtml

\* C10: zero blocks: applySingleDiffFuzzy is never called and the original document
\* is what the client sent; with no marker literal and no full-document beginning,
\* applyDiffs returns the original document itself and raises nothing.
C10_NoBlocksNoOp ==
    (ApplyDiffsOver /\ Len(blocks) = 0) =>
        /\ calls = <<>>
        /\ reqOriginalHtml = originalHtml
        /\ (~AnyMarkerOccurs(content) /\ ~BeginsLikeDocument(content)) =>
               /\ applyResult = Returned(originalHtml)
               /\ res.status # 0 => (res.status = 200 /\ res.body = originalHtml)
               /\ pc = "done" => html = originalHtml

C10_Witness ==
    /\ pc = "done"
    /\ Len(blocks) = 0
    /\ Len(content) > 0
    /\ ~AnyMarkerOccurs(content)
    /\ res.status = 200
    /\ html = originalHtml

(***************************************************************************)
(* Failure of a block, order of the blocks, insertion (C11 - C13).         *)
(***************************************************************************)
\* no hunk of the call's patch was placed by the approximate tier
NothingPlaced(call) == \A k \in 1..Len(call.applied.results) : call.applied.results[k] = FALSE

\* C11: when the only block's search text occurs nowhere in the document and the
\* approximate tier places nothing of it, applyDiffs raises the failure of block 1,
\* never returns a document, and the context written about the failure is a substring
\* of the current document.
C11_HardFailureTransparency ==
    (/\ ApplyDiffsOver
     /\ Len(blocks) = 1
     /\ ~Occurs(blocks[1].original, reqOriginalHtml)
     /\ \A k \in 1..Len(calls) : NothingPlaced(calls[k])) =>
        /\ applyResult = ThrownApply(1)
        /\ Len(logged) = 1
        /\ Occurs(logged[1].context, reqOriginalHtml)

\* the approximate tier left a hunk of the call's patch unplaced
SomeUnplaced(call) == \E k \in 1..Len(call.applied.results) : call.applied.results[k] = FALSE

\* the document with the first literal occurrence of the block's search text replaced
AfterExactly(doc, block) ==
    LET at == CHOOSE k \in 1..(Len(doc) - Len(block.original) + 1) :
                  /\ SubSeq(doc, k, k + Len(block.original) - 1) = block.original
                  /\ \A j \in 1..(k - 1) :
                         SubSeq(doc, j, j + Len(block.original) - 1) # block.original
    IN  SubSeq(doc, 1, at - 1) \o block.updated
            \o SubSeq(doc, at + Len(block.original), Len(doc))

\* blocks <<second, first>>: the search text of first occurs in the document, that of
\* second only once first has been applied
ReverseOrdered(doc, second, first) ==
    /\ Occurs(first.original, doc)
    /\ ~Occurs(second.original, doc)
    /\ Occurs(second.original, AfterExactly(doc, first))

\* C12 as stated, the reverse order: of two blocks where the search text of block 2
\* exists only after block 1's replacement, processed as [2, 1], applyDiffs fails with
\* the failure reported on the second-processed block.
C12_ReverseFailsOnSecondProcessed ==
    (/\ ApplyDiffsOver
     /\ Len(blocks) = 2
     /\ ReverseOrdered(reqOriginalHtml, blocks[1], blocks[2])) =>
        applyResult = ThrownApply(2)

\* C12, amended: a block whose search text occurs literally in the document it is
\* applied to never fails (so in the order [1, 2] block 1 applies, and block 2 applies
\* whenever what came of block 1 holds its search text); in the order [2, 1], once the
\* approximate tier leaves a hunk of block 2 unplaced, applyDiffs fails with the failure
\* of change 1, the first-processed block, and block 1 is never attempted.
C12_OrderSensitivity ==
    /\ \A k \in 1..Len(calls) :
           Occurs(calls[k].original, calls[k].currentHtml) => ~calls[k].result.isNull
    /\ (/\ ApplyDiffsOver
        /\ Len(blocks) = 2
        /\ ReverseOrdered(reqOriginalHtml, blocks[1], blocks[2])
        /\ SomeUnplaced(calls[1])) =>
           /\ applyResult = ThrownApply(1)
           /\ Len(calls) = 1

C12_Witness ==
    /\ pc = "done"
    /\ Len(blocks) = 2
    /\ ReverseOrdered(reqOriginalHtml, blocks[1], blocks[2])
    /\ SomeUnplaced(calls[1])
    /\ res.status = 400
    /\ res.index = 1

\* C13: a block with an empty search text and a non-empty replacement, applied to a
\* non-empty document by the exact tier, yields a document that begins with the
\* replacement text and keeps the whole existing content after it.
C13_InsertionViaEmptySearch ==
    \A k \in 1..Len(calls) :
        (/\ calls[k].original = <<>>
         /\ calls[k].updated # <<>>
         /\ calls[k].currentHtml # <<>>
         /\ SomeUnplaced(calls[k])) =>
            /\ ~calls[k].result.isNull
            /\ LET doc == calls[k].currentHtml
                   out == calls[k].result.value
               IN  /\ Len(out) >= Len(calls[k].updated) + Len(doc)
                   /\ SubSeq(out, 1, Len(calls[k].updated)) = calls[k].updated
                   /\ SubSeq(out, Len(out) - Len(doc) + 1, Len(out)) = doc

(***************************************************************************)
(* The client on a failed /api/apply-diffs (C15).                          *)
(***************************************************************************)
\* C15: in a diff-mode turn, once /api/apply-diffs has answered with a failure
\* (malformed response or a block that did not apply), the editor's document stays the
\* one the turn started with, and at the end of the turn the user has been shown an
\* error notification carrying the handler's message.
C15_ApplyFailureSurfaced ==
    (pc \in {"client", "done"} /\ res.status # 200) =>
        /\ html = originalHtml
        /\ pc = "done" =>
               \E k \in 1..Len(toasts) :
                   /\ toasts[k].kind = "error"
                   /\ toasts[k].error = res.error
                   /\ toasts[k].index = res.index

C15_Witness ==
    /\ pc = "done"
    /\ res.status = 400
    /\ res.error = "apply"
    /\ Len(calls) = 2
    /\ calls[1].result.value # originalHtml
    /\ html = originalHtml
    /\ toasts[1].kind = "error"

(***************************************************************************)
(* Claims about applySingleDiffFuzzy, checked under SpecApplySingle.       *)
(***************************************************************************)
LastIs(text, c) == text # <<>> /\ text[Len(text)] = c

\* C16: the effective search text is the search text plus a newline exactly when the
\* search text does not end in a newline and the document holds it followed by one,
\* and is the search text otherwise; the effective replacement is the replacement plus
\* a newline exactly when the effective search text ends in a newline and the
\* replacement is non-empty without a trailing newline, is empty when the effective
\* search text ends in a newline and the replacement is empty, and is the replacement
\* in every other case.
C16_Normalization ==
    \A k \in 1..Len(calls) :
        LET c == calls[k]
            grown == ~LastIs(c.original, NL) /\ Occurs(c.original \o <<NL>>, c.currentHtml)
            padded == /\ LastIs(c.searchBlock, NL)
                      /\ c.updated # <<>>
                      /\ ~LastIs(c.updated, NL)
        IN  /\ grown => c.searchBlock = c.original \o <<NL>>
            /\ ~grown => c.searchBlock = c.original
            /\ padded => c.replaceBlock = c.updated \o <<NL>>
            /\ (LastIs(c.searchBlock, NL) /\ c.updated = <<>>) => c.replaceBlock = <<>>
            /\ ~padded => c.replaceBlock = c.updated

C16_Witness ==
    /\ Len(calls) = 1
    /\ calls[1].original = <<"a">>
    /\ calls[1].searchBlock = <<"a", NL>>
    /\ calls[1].updated = <<"a", "a">>
    /\ calls[1].replaceBlock = <<"a", "a", NL>>

\* C17: the tiers are tried in one order, approximate then exact, and the first success
\* wins: the exact tier is tried exactly when the approximate tier left a hunk
\* unplaced; with every hunk placed the library's text is the result; and the result
\* is null exactly when a hunk was left unplaced and the normalized search text does
\* not occur literally in the document.
C17_TiersInOrder ==
    \A k \in 1..Len(calls) :
        LET c == calls[k]
        IN  /\ c.tiers \in {<<"approximate">>, <<"approximate", "exact">>}
            /\ (Len(c.tiers) = 2) <=> SomeUnplaced(c)
            /\ ~SomeUnplaced(c) => c.result = Str(c.applied.patchedHtml)
            /\ c.result.isNull <=>
                   (SomeUnplaced(c) /\ ~Occurs(c.searchBlock, c.currentHtml))

C17_Witness ==
    /\ Len(calls) = 1
    /\ calls[1].applied.results = <<TRUE, FALSE>>
    /\ calls[1].tiers = <<"approximate", "exact">>
    /\ ~calls[1].result.isNull
    /\ calls[1].result.value # calls[1].applied.patchedHtml

\* C18 as stated: the approximate tier is not tried for a block before the exact
\* literal match has been tried and has failed.
C18_StricterTierFirst ==
    \A k \in 1..Len(calls) :
        \A j \in 1..Len(calls[k].tiers) :
            calls[k].tiers[j] = "approximate" =>
                /\ \E h \in 1..(j - 1) : calls[k].tiers[h] = "exact"
                /\ ~Occurs(calls[k].searchBlock, calls[k].currentHtml)

\* C18, amended: the approximate tier is the first one tried for every block, whether
\* or not the normalized search text occurs literally, and its placement is the result
\* whenever it placed every hunk; the exact literal match is tried second, and only
\* after the approximate tier left a hunk unplaced.
C18_ApproximateTierFirst ==
    \A k \in 1..Len(calls) :
        LET c == calls[k]
        IN  /\ c.tiers[1] = "approximate"
            /\ \A j \in 1..Len(c.tiers) :
                   c.tiers[j] = "exact" => (j = 2 /\ SomeUnplaced(c))
            /\ (Occurs(c.searchBlock, c.currentHtml) /\ ~SomeUnplaced(c)) =>
                   /\ c.tiers = <<"approximate">>
                   /\ c.result = Str(c.applied.patchedHtml)

C18_Witness ==
    /\ Len(calls) = 1
    /\ Occurs(calls[1].searchBlock, calls[1].currentHtml)
    /\ calls[1].applied.results = <<TRUE>>
    /\ calls[1].tiers = <<"approximate">>
    /\ calls[1].result.value # AfterExactly(calls[1].currentHtml,
                                            [original |-> calls[1].searchBlock,
                                             updated |-> calls[1].replaceBlock])

\* C19: when the exact tier produces the result, the result is the document with the
\* leftmost literal occurrence of the normalized search text replaced by the
\* normalized replacement: the text before it and all the text after it, later
\* occurrences included, are kept.
C19_FallbackReplacesLeftmost ==
    \A k \in 1..Len(calls) :
        LET c == calls[k]
            doc == c.currentHtml
            n == Len(c.searchBlock)
            at(p) == SubSeq(doc, p, p + n - 1) = c.searchBlock
        IN  (SomeUnplaced(c) /\ ~c.result.isNull) =>
                \E p \in 1..(Len(doc) - n + 1) :
                    /\ at(p)
                    /\ \A q \in 1..(p - 1) : ~at(q)
                    /\ c.result.value =
                           SubSeq(doc, 1, p - 1) \o c.replaceBlock
                               \o SubSeq(doc, p + n, Len(doc))

C19_Witness ==
    /\ Len(calls) = 1
    /\ SomeUnplaced(calls[1])
    /\ calls[1].currentHtml = <<"a", NL, "a", NL>>
    /\ calls[1].searchBlock = <<"a", NL>>
    /\ calls[1].result = Str(<<NL, "a", NL>>)

(***************************************************************************)
(* The diagnostics of a failed block, checked under SpecContext (C20).     *)
(***************************************************************************)
\* the 0-based position of the leftmost occurrence of t in doc
FirstAt(t, doc) ==
    CHOOSE p \in 0..(Len(doc) - Len(t)) :
        /\ SubSeq(doc, p + 1, p + Len(t)) = t
        /\ \A q \in 0..(p - 1) : SubSeq(doc, q + 1, q + Len(t)) # t

MiddleLine(ls) == ls[(Len(ls) \div 2) + 1]

\* the anchor as C20 words it
ClaimedAnchor(doc, search) ==
    LET ls == Split(search)
    IN  IF Occurs(ls[1], doc) THEN FirstAt(ls[1], doc)
        ELSE IF Occurs(MiddleLine(ls), doc) THEN FirstAt(MiddleLine(ls), doc)
        ELSE 0

\* the anchor with the first line looked for only when it is not empty, and the middle
\* line only in a search text of more than two lines
NonEmptyLineAnchor(doc, search) ==
    LET ls == Split(search)
    IN  IF ls[1] # <<>> /\ Occurs(ls[1], doc) THEN FirstAt(ls[1], doc)
        ELSE IF Len(ls) > 2 /\ Occurs(MiddleLine(ls), doc) THEN FirstAt(MiddleLine(ls), doc)
        ELSE 0

\* the document from CONTEXT_BEFORE characters before the anchor to CONTEXT_AFTER
\* characters after the span of n characters that starts there, clamped to the document
SliceAround(doc, anchor, n) ==
    LET from == IF anchor > CONTEXT_BEFORE THEN anchor - CONTEXT_BEFORE ELSE 0
        to == IF anchor + n + CONTEXT_AFTER < Len(doc)
              THEN anchor + n + CONTEXT_AFTER
              ELSE Len(doc)
    IN  SubSeq(doc, from + 1, to)

AnonymousFrom(ip) ==
    {k \in 1..Len(requests) :
        requests[k].anonymous /\ requests[k].ip = ip /\ requests[k].state # "400"}

\* C14: whatever the interleaving of requests and open streams, for every address
\* at most MAX_REQUESTS_PER_IP anonymous requests are admitted and every later one is
\* answered 429; no two anonymous requests of an address saw the same count before
\* their increment; and the counter of an address is the number of its anonymous
\* requests so far, so it is never reset or evicted.
C14_RateLimitAtomic ==
    \A ip \in IpChoices :
        LET mine == AnonymousFrom(ip)
        IN  /\ Cardinality({k \in mine : requests[k].state # "429"}) <= MAX_REQUESTS_PER_IP
            /\ \A k \in mine :
                   requests[k].state = "429" <=>
                       Cardinality({j \in mine : j < k}) >= MAX_REQUESTS_PER_IP
            /\ \A k, j \in mine : k # j => requests[k].seen # requests[j].seen
            /\ CountOf(ipAddresses, ip) = Cardinality(mine)
            /\ mine # {} => ip \in DOMAIN ipAddresses

C14_Witness ==
    /\ Len(requests) = MAX_REQUESTS_PER_IP + 1
    /\ \A k \in 1..Len(requests) : requests[k].anonymous /\ requests[k].ip = "10.0.0.1"
    /\ requests[1].state = "streaming"
    /\ requests[2].state = "ended"
    /\ requests[Len(requests)].state = "429"
    /\ ipAddresses["10.0.0.1"] = MAX_REQUESTS_PER_IP + 1

(***************************************************************************)
(* The client's turn in diff mode (C21, C24).                              *)
(***************************************************************************)
\* C21: in a diff-mode turn the client sends at most one request to /api/apply-diffs;
\* while the stream is still being read it has sent none and nothing has been parsed
\* or applied; the one request, sent when the reader says done, holds the chunks
\* received, all of them, concatenated in arrival order, and the document as it was
\* when callAi started.
C21_CoreInvokedOncePerTurn ==
    /\ Len(sent) <= 1
    /\ chunksRead = Len(received)
    /\ pc \in {"idle", "streaming"} =>
           /\ sent = <<>>
           /\ content = <<>> /\ blocks = <<>> /\ calls = <<>>
           /\ res = NoResponse
    /\ pc \notin {"idle", "streaming"} =>
           /\ Len(sent) = 1
           /\ sent[1].afterChunks = Len(received)
           /\ sent[1].aiResponseContent = Flatten(received)
           /\ sent[1].originalHtml = originalHtml
           /\ content = Flatten(received)
           /\ reqOriginalHtml = originalHtml
    /\ pc \in {"streaming", "parse", "parsed", "apply", "respond", "client"} =>
           originalHtml = html

C21_Witness ==
    /\ pc = "done"
    /\ Len(received) = 3
    /\ received[1] # received[2]
    /\ received[2] # received[3]
    /\ Len(sent) = 1
    /\ res.status = 200
    /\ html # originalHtml

(***************************************************************************)
(* The final document of a full-document turn, checked under SpecFull      *)
(* (C22).                                                                  *)
(***************************************************************************)
\* the documents the complete response text yields: the document matched in it, the
\* preview of the whole of it, or, the text holding no document at all, the document
\* the turn started with
FromCompleteText(text, start) ==
    LET tagAt == {k \in 1..(Len(text) - Len(DOCTYPE_TAG) + 1) :
                      SubSeq(text, k, k + Len(DOCTYPE_TAG) - 1) = DOCTYPE_TAG}
        first == CHOOSE k \in tagAt : \A j \in tagAt : k <= j
        whole == SubSeq(text, first, Len(text))
        closeAt == {k \in (first + Len(DOCTYPE_TAG))..(Len(text) - Len(CLOSE_HTML) + 1) :
                        SubSeq(text, k, k + Len(CLOSE_HTML) - 1) = CLOSE_HTML}
        last == CHOOSE k \in closeAt : \A j \in closeAt : k >= j
    IN  IF tagAt = {} THEN {start}
        ELSE IF closeAt # {} THEN {SubSeq(text, first, last + Len(CLOSE_HTML) - 1)}
        ELSE {whole \o <<NL>> \o CLOSE_HTML}

\* C22: once the stream of a full-document turn is over, the editor's document is the
\* one the complete response text yields, never a preview made from a proper prefix
\* of it.
C22_FinalDocumentFromCompleteText ==
    pc = "done" => html \in FromCompleteText(Flatten(received), originalHtml)

(***************************************************************************)
(* The blocks of parseDiffBlocks and the marker lines of its input (C23).  *)
(***************************************************************************)
\* the number of lines of ls that equal the marker after trimming
MarkerLines(ls, marker) ==
    Cardinality({k \in 1..Len(ls) : Trim(ls[k]) = marker})

HasLineTrimmingTo(text, marker) ==
    \E k \in 1..Len(Split(text)) : Trim(Split(text)[k]) = marker

\* C23: at every point of parseDiffBlocks, for every input: no line of an emitted
\* block's search text equals DIVIDER after trimming, no line of its replace text
\* equals REPLACE_END after trimming, and the number of emitted blocks exceeds
\* neither the number of input lines that equal SEARCH_START after trimming, nor
\* the number that equal DIVIDER, nor the number that equal REPLACE_END.
C23_BlocksHoldNoClosingMarker ==
    /\ \A b \in 1..Len(blocks) :
          /\ ~HasLineTrimmingTo(blocks[b].original, DIVIDER)
          /\ ~HasLineTrimmingTo(blocks[b].updated, REPLACE_END)
    /\ Len(blocks) <= MarkerLines(lines, SEARCH_START)
    /\ Len(blocks) <= MarkerLines(lines, DIVIDER)
    /\ Len(blocks) <= MarkerLines(lines, REPLACE_END)

\* two blocks returned from a text with more marker lines than blocks, the first
\* block closed by a padded divider and holding a search line beside it
C23_Witness ==
    /\ pc = "parsed"
    /\ Len(blocks) = 2
    /\ blocks[1].original = <<" ", "a">>
    /\ \E k \in 1..Len(lines) : lines[k] = DIVIDER \o <<"\t">>
    /\ MarkerLines(lines, DIVIDER) = 3
    /\ MarkerLines(lines, REPLACE_END) > 2

\* a step with one of the effects of a successful turn: the "AI processing complete"
\* notification, the prompt cleared, previousPrompt advanced to the prompt, the
\* success sound played
SuccessEffect ==
    \/ \E k \in (Len(toasts) + 1)..Len(toasts') : toasts'[k] = CompleteToasts[1]
    \/ prompt # <<>> /\ prompt' = <<>>
    \/ previousPrompt' # previousPrompt
    \/ plays' > plays

\* C24: in diff mode the client reports a turn as successful (the "AI processing
\* complete" notification, the prompt cleared, previousPrompt advanced, the success
\* sound) only when /api/apply-diffs answered with success; after a failed diff
\* application none of these effects occurs.
C24_SuccessOnlyAfterAppliedDiffs ==
    [][SuccessEffect => res.status = 200]_vars

(***************************************************************************)
(* The frame of the /api/ask-ai handler on the counter map (C26).          *)
(***************************************************************************)
\* the request a step of the handler received
Arrived == requests'[Len(requests')]

\* the map with the count of ip one higher and every other address as it was
OneMore(map, ip) ==
    /\ DOMAIN ipAddresses' = DOMAIN map \cup {ip}
    /\ ipAddresses'[ip] = CountOf(map, ip) + 1
    /\ \A a \in DOMAIN map : a # ip => ipAddresses'[a] = map[a]

\* C26: a /api/ask-ai request that carries an hf_token cookie, or that is rejected
\* for a missing prompt, leaves the counter map unchanged and is never answered
\* with 429; an anonymous request with a prompt raises the counter of its address by
\* exactly one, whether it is admitted or rejected, and leaves the other addresses
\* alone; and no other step changes the map.
C26_CounterFrame ==
    [][IF Len(requests') = Len(requests) + 1
       THEN IF ~Arrived.anonymous \/ Arrived.state = "400"
            THEN ipAddresses' = ipAddresses /\ Arrived.state # "429"
            ELSE /\ OneMore(ipAddresses, Arrived.ip)
                 /\ Arrived.state \in {"429", "streaming"}
       ELSE ipAddresses' = ipAddresses]_vars

\* an address was counted three times, and after that a request of the same address
\* with the cookie was let through and an anonymous one without a prompt was
\* answered 400, the counter still three
C26_Witness ==
    /\ Len(requests) = MaxRequests
    /\ \E ip \in IpChoices :
          /\ CountOf(ipAddresses, ip) = 3
          /\ DOMAIN ipAddresses = {ip}
          /\ \A k \in 1..3 : requests[k].anonymous /\ requests[k].seen = k - 1
          /\ requests[4].ip = ip /\ ~requests[4].anonymous
          /\ requests[4].state = "ended"
          /\ requests[5].ip = ip /\ requests[5].anonymous
          /\ requests[5].state = "400"

(***************************************************************************)
(* The exits of callAi other than the end of the stream.  After CallAi the *)
(* turn awaits the network: the answer of fetch("/api/ask-ai") while no    *)
(* chunk was read, a read of the stream afterwards.                        *)
(***************************************************************************)
\* toast.error(res.message) (ask-ai.tsx line 63)
NotOkToasts == <<Toast("error", "message of /api/ask-ai", NoResponse)>>

\* toast.error(error.message) (ask-ai.tsx line 172)
CaughtToasts(message) == <<Toast("error", message, NoResponse)>>

\* a catch block that leaves the working flag as it is
WorkingAfterCatch_Kept == isAiWorking

\* setisAiWorking(false) (ask-ai.tsx lines 65, 171)
WorkingAfterCatch == FALSE

\* !request.ok: the login dialog or the error toast, then the return
\* (ask-ai.tsx lines 56-67)
ResponseNotOk ==
    /\ pc = "streaming"
    /\ chunksRead = 0
    /\ \E openLogin \in BOOLEAN :
           IF openLogin
           THEN open' = TRUE /\ UNCHANGED toasts
           ELSE toasts' = toasts \o NotOkToasts /\ UNCHANGED open
    /\ isAiWorking' = WorkingAfterCatch
    /\ pc' = "done"
    /\ UNCHANGED <<html, originalHtml, accumulatedDiffResponse, chunksRead, prompt,
                   previousPrompt, hasAsked, plays, fullVars, histVars, parserVars,
                   applyVars>>
    /\ UNCHANGED rateVars

\* the answer has no body: throw new Error("Response body is null"), caught
\* (ask-ai.tsx lines 56, 166-176)
ResponseBodyNull ==
    /\ pc = "streaming"
    /\ chunksRead = 0
    /\ isAiWorking' = WorkingAfterCatch
    /\ toasts' = toasts \o CaughtToasts("Response body is null")
    /\ pc' = "done"
    /\ UNCHANGED <<html, originalHtml, accumulatedDiffResponse, chunksRead, turnVars,
                   fullVars, histVars, parserVars, applyVars>>
    /\ UNCHANGED rateVars

\* the awaited fetch, request.json() or reader.read() rejects: the Error is caught
\* (ask-ai.tsx lines 45, 58, 77, 170-176); the Error of the platform has no openLogin
AwaitRejected ==
    /\ pc = "streaming"
    /\ isAiWorking' = WorkingAfterCatch
    /\ toasts' = toasts \o CaughtToasts("message of the rejection")
    /\ pc' = "done"
    /\ UNCHANGED <<html, originalHtml, accumulatedDiffResponse, chunksRead, turnVars,
                   fullVars, histVars, parserVars, applyVars>>
    /\ UNCHANGED rateVars

NextTurn ==
    \/ Next
    \/ ResponseNotOk
    \/ ResponseBodyNull
    \/ AwaitRejected

\* one document and one prompt
InitTurn ==
    /\ Init
    /\ html = <<"c", "a">>
    /\ prompt = <<"p">>

\* Every continuation of callAi runs once the promise it awaits has settled, and
\* the fetches and the reads of the stream eventually settle.
SpecTurn == InitTurn /\ [][NextTurn]_vars /\ WF_vars(NextTurn)

\* C25: every started callAi turn eventually resets isAiWorking to false, on every
\* exit path (non-OK response, null response body, rejected fetch or stream read,
\* failed diff application, normal completion), given that the fetches and the reads
\* of the stream eventually settle: a turn that is working leads to one that is not,
\* and no turn is over with the flag still set.
C25_WorkingEventuallyReset ==
    /\ isAiWorking ~> ~isAiWorking
    /\ [](pc = "done" => ~isAiWorking)

\* a turn ended by a read of the stream that failed after two chunks: the flag is
\* reset, the error shown, and none of the effects of a completed turn happened
C25_Witness ==
    /\ pc = "done"
    /\ chunksRead = 2
    /\ ~isAiWorking
    /\ originalHtml = html
    /\ toasts = CaughtToasts("message of the rejection")
    /\ ~hasAsked
    /\ prompt # <<>>

====
